---- MODULE Spec2Model ----
(***************************************************************************)
(* A state-machine model of the hotel receptionist voice bot:              *)
(*   - TranscriptLogger (src/src/bot_main.py): the in-memory transcript,   *)
(*     the incremental append to the transcript file and the three export  *)
(*     operations;                                                         *)
(*   - TranslationService.translate_to_english (src/src/translator.py);    *)
(*   - the session driver bot() (src/src/bot_main.py).                     *)
(*                                                                         *)
(* Every Python str is a tuple of tokens (<<"H","o","l","a">>, <<"USER">>),*)
(* so that strip(), len(), rsplit() and concatenation are computed.  A     *)
(* text file is the sequence of the lines written to it; each message is   *)
(* one utterance and holds no line break.                                  *)
(***************************************************************************)
EXTENDS Integers, Sequences, FiniteSets, TLC

\* ------------------------------------------------------------ bounds
\* add_entry calls per logger session.
MaxEntries == 2
\* The clock runs from tick 0 to MaxClock; one tick is one second.
MaxClock == 1
\* Ticks in a day: ticks t and t + TicksPerDay show the same time of day.
TicksPerDay == 2
\* Records the reservation store file holds.
MaxRecords == 2
\* Device streams one voice input handler opens.
MaxStreams == 3
\* Sessions (loggers) one process runs.
MaxSessions == 2
\* Events the session stream delivers in one bot() run.
MaxEvents == 2

\* ------------------------------------------------------------ text
Whitespace == {" "}

RECURSIVE LStrip(_)
LStrip(s) == IF s # <<>> /\ Head(s) \in Whitespace THEN LStrip(Tail(s)) ELSE s

RECURSIVE RStrip(_)
RStrip(s) ==
    IF s # <<>> /\ s[Len(s)] \in Whitespace
    THEN RStrip(SubSeq(s, 1, Len(s) - 1))
    ELSE s

\* str.strip()
Strip(s) == RStrip(LStrip(s))

\* str.lower() on the language names the model uses.
Lower(s) ==
    [i \in 1..Len(s) |->
        CASE s[i] = "English" -> "english"
          [] s[i] = "ENGLISH" -> "english"
          [] s[i] = "Unknown" -> "unknown"
          [] s[i] = "Spanish" -> "spanish"
          [] OTHER -> s[i]]

Range(s) == {s[i] : i \in 1..Len(s)}

IsPrefix(s, t) == Len(s) <= Len(t) /\ SubSeq(t, 1, Len(s)) = s

Hola == <<"H", "o", "l", "a">>
Hello == <<"H", "e", "l", "l", "o">>
Empty == <<>>

SYSTEM == <<"SYSTEM">>
USER == <<"USER">>
RECEPTIONIST == <<"RECEPTIONIST">>
GUEST == <<"GUEST">>

English == <<"English">>
Spanish == <<"Spanish">>
Unknown == <<"Unknown">>

\* ------------------------------------------------------------ time
Digits == <<"0", "1", "2", "3", "4", "5", "6", "7", "8", "9">>
Digit(n) == Digits[n + 1]

\* datetime.isoformat(): date and time of day.
isoformat(t) == <<Digit(t \div TicksPerDay), "T", Digit(t % TicksPerDay)>>

\* datetime.strftime('%H:%M:%S'): the time of day alone.
strftime_HMS(t) == <<Digit(t % TicksPerDay)>>

\* datetime.strftime("%Y%m%d_%H%M%S"): date and time of day, second resolution.
strftime_stamp(t) == <<Digit(t \div TicksPerDay), "_", Digit(t % TicksPerDay)>>

\* The timestamp argument of add_entry when it is left out.
NoTimestamp == -1

\* ------------------------------------------------------------ translator.py
\* source_language=None
NoLanguage == <<"None">>

\* What a chat-completions call does: it raises, or answers with a content.
ApiError == [ok |-> FALSE, content |-> <<>>]
ApiAnswer(content) == [ok |-> TRUE, content |-> content]

\* A faulty _should_translate: the language is compared without lower().
_should_translate_case_sensitive(language) ==
    language \notin {<<"english">>, <<"unknown">>}

_should_translate(language) == Lower(language) \notin {<<"english">>, <<"unknown">>}

_create_translation_result(original, translated, source_language, needs_translation) ==
    [original |-> original,
     translated |-> translated,
     source_language |-> source_language,
     needs_translation |-> needs_translation]

detect_language(text, detectApi) ==
    IF text = <<>> \/ Len(Strip(text)) < 3
    THEN Unknown
    ELSE IF detectApi.ok THEN Strip(detectApi.content) ELSE Unknown

translate_to_english(text, source_language, detectApi, translateApi) ==
    IF text = <<>> \/ Len(Strip(text)) < 1
    THEN _create_translation_result(text, text, Unknown, FALSE)
    ELSE LET lang == IF source_language = NoLanguage
                     THEN detect_language(text, detectApi)
                     ELSE source_language
         IN  IF ~_should_translate(lang)
             THEN _create_translation_result(text, text, lang, FALSE)
             ELSE IF translateApi.ok
                  THEN _create_translation_result(
                           text, Strip(translateApi.content), lang, TRUE)
                  ELSE _create_translation_result(text, text, lang, FALSE)

\* ------------------------------------------------------------ the adapter
\* self.translator is duck-typed: the TranslationService, or any object with a
\* translate_to_english method.  An adapter's behaviour on one call:
\*   kind "service": TranslationService, with the two API calls' outcomes;
\*   kind "raises":  the call raises an Exception;
\*   kind "missing": the call returns a result without the key `key`.
Adapter(kind, detectApi, translateApi, key) ==
    [kind |-> kind, detectApi |-> detectApi, translateApi |-> translateApi, key |-> key]

TranslationKeys == <<"translated", "source_language", "needs_translation">>

\* self.translator.translate_to_english(message): [raised, value]
AdapterCall(adapter, message) ==
    LET r == translate_to_english(message, NoLanguage,
                                  adapter.detectApi, adapter.translateApi)
    IN  CASE adapter.kind = "raises" -> [raised |-> TRUE, value |-> r]
          [] adapter.kind = "missing" ->
                [raised |-> FALSE,
                 value |-> [k \in DOMAIN r \ {adapter.key} |-> r[k]]]
          [] OTHER -> [raised |-> FALSE, value |-> r]

\* ------------------------------------------------------------ the file system
\* A file system maps each existing path to the sequence of lines the file holds.
\* One open-and-write ends in one of:
\*   "ok"      everything is written;
\*   "EACCES"  open() raises (the directory does not allow writes): the file is
\*             left as it was;
\*   "ENOSPC"  open() succeeds (mode "w" has truncated) and the write raises
\*             after all the lines but the last were written, and the last one
\*             in part.
IoOutcomes == {"ok", "EACCES", "ENOSPC"}

NoError == "none"
OSError == "OSError"

Torn(line) == [line EXCEPT !.kind = "torn"]

Written(lines, io) ==
    CASE io = "ok" -> lines
      [] io = "ENOSPC" /\ lines # <<>> ->
            SubSeq(lines, 1, Len(lines) - 1) \o <<Torn(lines[Len(lines)])>>
      [] OTHER -> <<>>

\* with open(path, mode) as f: f.write(line) for each line
open_write(fsys, path, mode, lines, io) ==
    IF io = "EACCES"
    THEN [fs |-> fsys, raised |-> OSError]
    ELSE LET old == IF mode = "a" /\ path \in DOMAIN fsys THEN fsys[path] ELSE <<>>
             new == old \o Written(lines, io)
         IN  [fs |-> [q \in DOMAIN fsys \cup {path} |-> IF q = path THEN new ELSE fsys[q]],
              raised |-> IF io = "ok" THEN NoError ELSE OSError]

\* ------------------------------------------------------------ TranscriptLogger
NoFilename == <<"None">>
NoTranslator == "None"
NoPath == <<"None">>

Max(S) == CHOOSE m \in S : \A n \in S : n <= m

\* filename.rsplit(".", 1)[0]
rsplit_base(filename) ==
    LET dots == {i \in 1..Len(filename) : filename[i] = "."}
    IN  IF dots = {} THEN filename ELSE SubSeq(filename, 1, Max(dots) - 1)

default_filename(t) == <<"hotel_conversation_">> \o strftime_stamp(t) \o <<".", "txt">>

bilingual_path(base_filename) == base_filename \o <<"_bilingual", ".", "txt">>

json_path(base_filename) == base_filename \o <<".", "json">>

\* A faulty _initialize_translator: the failure handler forgets to switch
\* enable_translation off.
_initialize_translator_keeps_flag(enable, initOk) ==
    IF ~enable
    THEN [translator |-> NoTranslator, enable_translation |-> FALSE, raised |-> FALSE]
    ELSE [translator |-> IF initOk THEN "TranslationService" ELSE NoTranslator,
          enable_translation |-> TRUE, raised |-> FALSE]

\* _initialize_translator: initOk says whether TranslationService() returns.
_initialize_translator(enable, initOk) ==
    IF ~enable
    THEN [translator |-> NoTranslator, enable_translation |-> FALSE, raised |-> FALSE]
    ELSE IF initOk
         THEN [translator |-> "TranslationService", enable_translation |-> TRUE,
               raised |-> FALSE]
         ELSE [translator |-> NoTranslator, enable_translation |-> FALSE,
               raised |-> FALSE]

\* TranscriptLogger.__init__ at clock t
TranscriptLogger(filenameArg, enable, initOk, t) ==
    LET name == IF filenameArg = NoFilename THEN default_filename(t) ELSE filenameArg
        tr == _initialize_translator(enable, initOk)
    IN  [filename |-> name,
         base_filename |-> rsplit_base(name),
         transcript |-> <<>>,
         enable_translation |-> tr.enable_translation,
         translator |-> tr.translator,
         raised |-> tr.raised]

_create_entry(speaker, message, timestamp) ==
    [timestamp |-> isoformat(timestamp), speaker |-> speaker, message |-> message]

\* A faulty _add_translation_to_entry: the speaker is not looked at.
_add_translation_any_speaker(entry, speaker, message, enable, adapter) ==
    IF ~enable
    THEN [entry |-> entry, invoked |-> FALSE]
    ELSE LET r == AdapterCall(adapter, message)
             v == r.value
             fallback == [translated |-> message,
                          source_language |-> Unknown,
                          needs_translation |-> FALSE]
         IN  [entry |-> IF r.raised \/ ~(Range(TranslationKeys) \subseteq DOMAIN v)
                        THEN fallback @@ entry
                        ELSE [k \in Range(TranslationKeys) |-> v[k]] @@ entry,
              invoked |-> TRUE]

\* A faulty _add_translation_to_entry: the handler fills in only the fields the
\* try block had not assigned yet.
_add_translation_partial_fallback(entry, speaker, message, enable, adapter) ==
    IF ~enable \/ speaker \notin {USER, RECEPTIONIST}
    THEN [entry |-> entry, invoked |-> FALSE]
    ELSE LET r == AdapterCall(adapter, message)
             v == r.value
             fallback == [translated |-> message,
                          source_language |-> Unknown,
                          needs_translation |-> FALSE]
             got == IF r.raised
                    THEN {}
                    ELSE CASE "translated" \notin DOMAIN v -> {}
                           [] "source_language" \notin DOMAIN v -> {"translated"}
                           [] "needs_translation" \notin DOMAIN v ->
                                 {"translated", "source_language"}
                           [] OTHER -> Range(TranslationKeys)
         IN  [entry |-> [k \in got |-> v[k]] @@ fallback @@ entry, invoked |-> TRUE]

\* Returns the entry and whether the adapter was invoked.
_add_translation_to_entry(entry, speaker, message, enable, adapter) ==
    IF ~enable \/ speaker \notin {USER, RECEPTIONIST}
    THEN [entry |-> entry, invoked |-> FALSE]
    ELSE LET r == AdapterCall(adapter, message)
             v == r.value
             fallback == [translated |-> message,
                          source_language |-> Unknown,
                          needs_translation |-> FALSE]
             e1 == ("translated" :> v["translated"]) @@ entry
             e2 == ("source_language" :> v["source_language"]) @@ e1
             e3 == ("needs_translation" :> v["needs_translation"]) @@ e2
             out == CASE r.raised -> fallback @@ entry
                      [] "translated" \notin DOMAIN v -> fallback @@ entry
                      [] "source_language" \notin DOMAIN v -> fallback @@ e1
                      [] "needs_translation" \notin DOMAIN v -> fallback @@ e2
                      [] OTHER -> e3
         IN  [entry |-> out, invoked |-> TRUE]

Line(ts, speaker, text) == [kind |-> "line", ts |-> ts, speaker |-> speaker, text |-> text]

\* A faulty _write_entry_to_file: the file is opened in mode "w".
_write_entry_to_file_truncates(fsys, filename, entry, timestamp, io) ==
    open_write(fsys, filename, "w",
               <<Line(strftime_HMS(timestamp), entry.speaker, entry.message)>>, io)

\* A faulty _write_entry_to_file: the OSError is caught and dropped.
_write_entry_to_file_swallows(fsys, filename, entry, timestamp, io) ==
    [fs |-> open_write(fsys, filename, "a",
                       <<Line(strftime_HMS(timestamp), entry.speaker, entry.message)>>,
                       io).fs,
     raised |-> NoError]

\* f"[{timestamp.strftime('%H:%M:%S')}] {entry['speaker']}: {entry['message']}\n"
_write_entry_to_file(fsys, filename, entry, timestamp, io) ==
    open_write(fsys, filename, "a",
               <<Line(strftime_HMS(timestamp), entry.speaker, entry.message)>>, io)

\* A faulty add_entry: the entry is appended after the file write, so a failed
\* write loses it.
add_entry_write_first(transcript, enable, filename, fsys, speaker, message, tsArg, clock, adapter, io) ==
    LET timestamp == IF tsArg = NoTimestamp THEN clock ELSE tsArg
        entry0 == _create_entry(speaker, message, timestamp)
        tr == _add_translation_to_entry(entry0, speaker, message, enable, adapter)
        w == _write_entry_to_file(fsys, filename, tr.entry, timestamp, io)
    IN  [transcript |-> IF w.raised = NoError
                        THEN Append(transcript, tr.entry) ELSE transcript,
         fs |-> w.fs,
         raised |-> w.raised,
         invoked |-> tr.invoked,
         timestamp |-> timestamp,
         given |-> tsArg,
         clock |-> clock]

\* add_entry on a logger with the given fields; `clock` is what datetime.now()
\* reads.  The entry is appended before the file is written.
\* A faulty add_entry: an omitted timestamp defaults to a fixed instant, not to
\* the current time.
add_entry_fixed_default(transcript, enable, filename, fsys, speaker, message, tsArg, clock, adapter, io) ==
    LET timestamp == IF tsArg = NoTimestamp THEN 0 ELSE tsArg
        entry0 == _create_entry(speaker, message, timestamp)
        tr == _add_translation_to_entry(entry0, speaker, message, enable, adapter)
        w == _write_entry_to_file(fsys, filename, tr.entry, timestamp, io)
    IN  [transcript |-> Append(transcript, tr.entry),
         fs |-> w.fs,
         raised |-> w.raised,
         invoked |-> tr.invoked,
         timestamp |-> timestamp,
         given |-> tsArg,
         clock |-> clock]

add_entry(transcript, enable, filename, fsys, speaker, message, tsArg, clock, adapter, io) ==
    LET timestamp == IF tsArg = NoTimestamp THEN clock ELSE tsArg
        entry0 == _create_entry(speaker, message, timestamp)
        tr == _add_translation_to_entry(entry0, speaker, message, enable, adapter)
        w == _write_entry_to_file(fsys, filename, tr.entry, timestamp, io)
    IN  [transcript |-> Append(transcript, tr.entry),
         fs |-> w.fs,
         raised |-> w.raised,
         invoked |-> tr.invoked,
         timestamp |-> timestamp,
         given |-> tsArg,
         clock |-> clock]

\* f"[{entry['timestamp']}] {entry['speaker']}: {entry['message']}\n"
OriginalLines(transcript) ==
    [i \in 1..Len(transcript) |->
        Line(transcript[i].timestamp, transcript[i].speaker, transcript[i].message)]

\* A faulty _save_original_transcript: the file is opened in append mode.
_save_original_transcript_appends(fsys, filename, transcript, io) ==
    open_write(fsys, filename, "a", OriginalLines(transcript), io)

_save_original_transcript(fsys, filename, transcript, io) ==
    open_write(fsys, filename, "w", OriginalLines(transcript), io)

Banner ==
    <<[kind |-> "rule", ts |-> <<>>, speaker |-> <<>>, text |-> <<>>],
      [kind |-> "title", ts |-> <<>>, speaker |-> <<>>, text |-> <<>>],
      [kind |-> "rule", ts |-> <<>>, speaker |-> <<>>, text |-> <<>>],
      [kind |-> "blank", ts |-> <<>>, speaker |-> <<>>, text |-> <<>>]>>

\* A faulty _format_bilingual_entry: the English lines are written for every
\* entry that has a translation, needed or not.
_format_bilingual_entry_always(entry) ==
    LET head == <<[kind |-> "header", ts |-> entry.timestamp,
                   speaker |-> entry.speaker, text |-> <<>>],
                  [kind |-> "original", ts |-> <<>>, speaker |-> <<>>,
                   text |-> entry.message]>>
        english == IF "translated" \in DOMAIN entry
                   THEN <<[kind |-> "english", ts |-> <<>>, speaker |-> <<>>,
                           text |-> entry.translated],
                          [kind |-> "detected", ts |-> <<>>, speaker |-> <<>>,
                           text |-> IF "source_language" \in DOMAIN entry
                                    THEN entry.source_language ELSE Unknown]>>
                   ELSE <<>>
    IN  head \o english \o <<[kind |-> "blank", ts |-> <<>>, speaker |-> <<>>, text |-> <<>>]>>

_format_bilingual_entry(entry) ==
    LET head == <<[kind |-> "header", ts |-> entry.timestamp,
                   speaker |-> entry.speaker, text |-> <<>>],
                  [kind |-> "original", ts |-> <<>>, speaker |-> <<>>,
                   text |-> entry.message]>>
        shown == /\ "translated" \in DOMAIN entry
                 /\ IF "needs_translation" \in DOMAIN entry
                    THEN entry.needs_translation ELSE FALSE
        english == IF shown
                   THEN <<[kind |-> "english", ts |-> <<>>, speaker |-> <<>>,
                           text |-> entry.translated],
                          [kind |-> "detected", ts |-> <<>>, speaker |-> <<>>,
                           text |-> IF "source_language" \in DOMAIN entry
                                    THEN entry.source_language ELSE Unknown]>>
                   ELSE <<>>
    IN  head \o english \o <<[kind |-> "blank", ts |-> <<>>, speaker |-> <<>>, text |-> <<>>]>>

RECURSIVE BilingualBlocks(_)
BilingualBlocks(transcript) ==
    IF transcript = <<>>
    THEN <<>>
    ELSE _format_bilingual_entry(Head(transcript)) \o BilingualBlocks(Tail(transcript))

\* Returns the file system, the error raised and the path returned.
_save_bilingual_transcript(fsys, base_filename, enable, transcript, io) ==
    IF ~enable
    THEN [fs |-> fsys, raised |-> NoError, ret |-> NoPath, wrote |-> FALSE]
    ELSE LET w == open_write(fsys, bilingual_path(base_filename), "w",
                             Banner \o BilingualBlocks(transcript), io)
         IN  [fs |-> w.fs, raised |-> w.raised,
              ret |-> bilingual_path(base_filename), wrote |-> TRUE]

\* save_full_transcript: io1 is the outcome of the original file's write, io2
\* of the bilingual file's.  `ret` is the pair returned when nothing is raised.
save_full_transcript(fsys, filename, base_filename, enable, transcript, io1, io2) ==
    LET o == _save_original_transcript(fsys, filename, transcript, io1)
        b == _save_bilingual_transcript(o.fs, base_filename, enable, transcript, io2)
    IN  IF o.raised # NoError
        THEN [fs |-> o.fs, raised |-> o.raised, ret |-> <<>>]
        ELSE IF b.raised # NoError
             THEN [fs |-> b.fs, raised |-> b.raised, ret |-> <<>>]
             ELSE [fs |-> b.fs, raised |-> NoError, ret |-> <<filename, b.ret>>]

\* ------------------------------------------------------------ JSON
Quote == "\""
EntryKeys ==
    <<"timestamp", "speaker", "message", "translated", "source_language", "needs_translation">>

\* json.dump of one value: a str between quotes, a bool as true or false.
json_value(key, v) ==
    IF key = "needs_translation"
    THEN IF v THEN <<"true">> ELSE <<"false">>
    ELSE <<Quote>> \o v \o <<Quote>>

\* json.dump of one entry: its keys in insertion order, each with its value.
json_object(entry) ==
    LET present == SelectSeq(EntryKeys, LAMBDA k : k \in DOMAIN entry)
    IN  [i \in 1..Len(present) |-> <<present[i], json_value(present[i], entry[present[i]])>>]

json_dump(transcript) ==
    [kind |-> "json", array |-> [i \in 1..Len(transcript) |-> json_object(transcript[i])]]

\* A faulty save_json_transcript: the file is opened in append mode.
save_json_transcript_appends(fsys, base_filename, transcript, io) ==
    LET w == open_write(fsys, json_path(base_filename), "a", <<json_dump(transcript)>>, io)
    IN  [fs |-> w.fs, raised |-> w.raised,
         ret |-> IF w.raised = NoError THEN <<json_path(base_filename)>> ELSE <<>>]

save_json_transcript(fsys, base_filename, transcript, io) ==
    LET w == open_write(fsys, json_path(base_filename), "w", <<json_dump(transcript)>>, io)
    IN  [fs |-> w.fs, raised |-> w.raised,
         ret |-> IF w.raised = NoError THEN <<json_path(base_filename)>> ELSE <<>>]

\* ------------------------------------------------------------ state
VARIABLES
    \* the logger's fields
    filename, base_filename, transcript, enable_translation, translator,
    \* the environment: the files and the clock
    fs, now,
    \* how the logger was constructed
    ctor,
    \* history: the add_entry calls made, the adapter's invocations, the last
    \* operation's outcome, and what the successful save_full_transcript and
    \* save_json_transcript calls since the last add_entry wrote and returned
    callLog, adapterCalls, last, fullRuns, jsonRuns,
    \* bot(): its position, the events delivered, the exception in flight, and
    \* which export operations were called
    pc, delivered, pending, called,
    \* the rest of the process: the loggers of the sessions it runs, the
    \* reservation store file, the outcome of the last endpoint call or store
    \* operation, the last translate_to_english call, and the voice input
    \* handler with the device streams it opened
    loggers, store, response, trCall, voice

loggerVars == <<filename, base_filename, transcript, enable_translation, translator>>
envVars == <<fs, now>>
histVars == <<ctor, callLog, adapterCalls, last, fullRuns, jsonRuns>>
botVars == <<pc, delivered, pending, called>>
appVars == <<loggers, store, response, trCall, voice>>
vars == <<loggerVars, envVars, histVars, botVars, appVars>>

\* ------------------------------------------------------------ inputs
Speakers == {SYSTEM, USER, RECEPTIONIST, GUEST}
Messages == {Empty, Hola}

DetectOutcomes == {ApiError, ApiAnswer(English), ApiAnswer(Spanish), ApiAnswer(Unknown)}
TranslateOutcomes == {ApiError, ApiAnswer(Hello)}
\* The TranslationService answering "Spanish" and a translation.
SpanishAdapter == Adapter("service", ApiAnswer(Spanish), ApiAnswer(Hello), "")
Adapters ==
    {Adapter("service", d, t, "") : d \in DetectOutcomes, t \in TranslateOutcomes}
    \cup {Adapter("raises", ApiError, ApiError, "")}
    \cup {Adapter("missing", ApiAnswer(Spanish), ApiAnswer(Hello), k) :
            k \in Range(TranslationKeys)}

\* A line left in the transcript file by an earlier run.
StaleLine == Line(<<"old">>, SYSTEM, <<"old">>)

NoFiles == [p \in {} |-> <<>>]

\* The parts of the process a specification does not use.
NoSessions == loggers = <<>>

NoApi ==
    /\ store = [exists |-> FALSE, records |-> <<>>]
    /\ response = [endpoint |-> "none", status |-> 0, body |-> <<>>, detail |-> <<>>,
                   cause |-> "none", error |-> <<>>, before |-> 0]

\* VoiceInputHandler(): not recording, no stream attribute yet (stream 0), no
\* device stream opened; op, ret, was and had describe the last call: its name,
\* what it returned, and is_recording and the number of streams before it.
VoiceInputHandler ==
    [is_recording |-> FALSE, stream |-> 0, streams |-> <<>>,
     op |-> "__init__", ret |-> <<>>, was |-> FALSE, had |-> 0]

NoTranslateCall ==
    trCall = [text |-> <<>>, source_language |-> <<>>, detectApi |-> ApiError,
              translateApi |-> ApiError, result |-> <<>>]

\* ------------------------------------------------------------ the logger alone
Construct(filenameArg, enable, initOk, preexisting) ==
    LET L == TranscriptLogger(filenameArg, enable, initOk, 0)
    IN  /\ filename = L.filename
        /\ base_filename = L.base_filename
        /\ transcript = L.transcript
        /\ enable_translation = L.enable_translation
        /\ translator = L.translator
        /\ fs = IF preexisting THEN (L.filename :> <<StaleLine>>) ELSE NoFiles
        /\ now = 0
        /\ ctor = [filenameArg |-> filenameArg, requested |-> enable, initOk |-> initOk,
                   raised |-> L.raised, preexisting |-> preexisting]
        /\ callLog = <<>>
        /\ adapterCalls = 0
        /\ last = [op |-> "init", raised |-> NoError, io |-> "none",
                   adapter |-> "not_called", ret |-> <<>>, again |-> FALSE]
        /\ fullRuns = {}
        /\ jsonRuns = {}
        /\ delivered = <<>>
        /\ pending = NoError
        /\ called = {}

\* The effect of one add_entry call, r being what the call did.
Logged(r, speaker, message, adapter, io) ==
    /\ transcript' = r.transcript
    /\ fs' = r.fs
    /\ callLog' = Append(callLog, [speaker |-> speaker, message |-> message,
                                   timestamp |-> r.timestamp,
                                   given |-> r.given, clock |-> r.clock])
    /\ adapterCalls' = adapterCalls + (IF r.invoked THEN 1 ELSE 0)
    /\ last' = [op |-> "add_entry", raised |-> r.raised, io |-> io,
                adapter |-> IF r.invoked THEN adapter.kind ELSE "not_called",
                ret |-> <<>>, again |-> FALSE]

\* One add_entry call with its inputs drawn from the given sets; `ticks` are the
\* numbers of seconds that may have passed since the last reading of the clock.
AddEntryFrom(speakers, messages, tsArgs, ticks, adapters, ios) ==
    /\ pc = "logger"
    /\ Len(callLog) < MaxEntries
    /\ \E speaker \in speakers, message \in messages, tsArg \in tsArgs,
          t \in {now + d : d \in ticks} \cap 0..MaxClock, adapter \in adapters, io \in ios :
          /\ Logged(add_entry(transcript, enable_translation, filename, fs,
                              speaker, message, tsArg, t, adapter, io),
                    speaker, message, adapter, io)
          /\ now' = t
    /\ fullRuns' = {}
    /\ jsonRuns' = {}
    /\ UNCHANGED <<filename, base_filename, enable_translation, translator, ctor, botVars>>
    /\ UNCHANGED appVars

SaveFullFrom(ios) ==
    /\ pc = "logger"
    /\ \E io1 \in ios, io2 \in ios :
          LET r == save_full_transcript(fs, filename, base_filename, enable_translation,
                                        transcript, io1, io2)
              run == [files |-> [p \in {filename} \cup
                                       (IF enable_translation
                                        THEN {bilingual_path(base_filename)} ELSE {})
                                   |-> r.fs[p]],
                      ret |-> r.ret,
                      transcript |-> transcript]
          IN  /\ (io1 = "ok" /\ enable_translation) \/ io2 = "ok"
              /\ fs' = r.fs
              /\ last' = [op |-> "save_full", raised |-> r.raised,
                          io |-> IF io1 # "ok" THEN io1 ELSE io2,
                          adapter |-> "not_called", ret |-> r.ret,
                          again |-> fullRuns # {}]
              /\ fullRuns' = IF r.raised = NoError THEN fullRuns \cup {run} ELSE fullRuns
    /\ UNCHANGED <<loggerVars, now, ctor, callLog, adapterCalls, jsonRuns, botVars>>
    /\ UNCHANGED appVars

SaveJsonFrom(ios) ==
    /\ pc = "logger"
    /\ \E io \in ios :
          LET r == save_json_transcript(fs, base_filename, transcript, io)
              run == [files |-> [p \in {json_path(base_filename)} |-> r.fs[p]],
                      ret |-> r.ret, transcript |-> transcript]
          IN  /\ fs' = r.fs
              /\ last' = [op |-> "save_json", raised |-> r.raised, io |-> io,
                          adapter |-> "not_called", ret |-> r.ret,
                          again |-> jsonRuns # {}]
              /\ jsonRuns' = IF r.raised = NoError THEN jsonRuns \cup {run} ELSE jsonRuns
    /\ UNCHANGED <<loggerVars, now, ctor, callLog, adapterCalls, fullRuns, botVars>>
    /\ UNCHANGED appVars

\* --- Spec: one logger under storage faults.
StorageSpeakers == {SYSTEM, USER}

Init ==
    /\ pc = "logger"
    /\ \E enable \in BOOLEAN, initOk \in BOOLEAN, preexisting \in BOOLEAN :
          /\ enable \/ initOk
          /\ Construct(<<"t", ".", "txt">>, enable, initOk, preexisting)
    /\ NoSessions /\ NoApi /\ voice = VoiceInputHandler /\ NoTranslateCall

AddEntry ==
    AddEntryFrom(StorageSpeakers, {Hola}, {NoTimestamp}, 0..MaxClock, {SpanishAdapter},
                 IoOutcomes)

SaveFull == SaveFullFrom({"ok", "EACCES"})

SaveJson == SaveJsonFrom({"ok", "EACCES"})

Next == AddEntry \/ SaveFull \/ SaveJson

Spec == Init /\ [][Next]_vars

\* --- SpecTranslation: one logger with every speaker, message and adapter
\* behaviour, translation requested or not.
InitTranslation ==
    /\ pc = "logger"
    /\ \E enable \in BOOLEAN : Construct(<<"t", ".", "txt">>, enable, TRUE, FALSE)
    /\ NoSessions /\ NoApi /\ voice = VoiceInputHandler /\ NoTranslateCall

AddEntryAny ==
    AddEntryFrom(Speakers, Messages, {NoTimestamp}, {0}, Adapters, {"ok", "EACCES"})

SaveJsonOk == SaveJsonFrom({"ok"})

NextTranslation == AddEntryAny \/ SaveJsonOk

SpecTranslation == InitTranslation /\ [][NextTranslation]_vars

\* --- SpecBilingual: a translating logger whose adapter translates, answers
\* English, fails in the translation call or raises; no storage faults in the
\* exports.
InitBilingual ==
    /\ pc = "logger"
    /\ Construct(<<"t", ".", "txt">>, TRUE, TRUE, FALSE)
    /\ NoSessions /\ NoApi /\ voice = VoiceInputHandler /\ NoTranslateCall

AddEntryBilingual ==
    AddEntryFrom(StorageSpeakers, {Hola}, {NoTimestamp}, 0..MaxClock,
                 {SpanishAdapter,
                  Adapter("service", ApiAnswer(English), ApiAnswer(Hello), ""),
                  Adapter("service", ApiAnswer(Spanish), ApiError, ""),
                  Adapter("raises", ApiError, ApiError, "")},
                 {"ok", "EACCES"})

SaveFullOk == SaveFullFrom({"ok"})

NextBilingual == AddEntryBilingual \/ SaveFullOk

SpecBilingual == InitBilingual /\ [][NextBilingual]_vars

\* --- SpecTranslate: translate_to_english alone, on every text, given language
\* and outcome of the two API calls.
TranslateTexts == {Empty, <<" ">>, <<"H", "i">>, Hola}
GivenLanguages == {NoLanguage, English, <<"ENGLISH">>, <<"unknown">>, Spanish}

InitTranslate ==
    /\ pc = "translator"
    /\ Construct(<<"t", ".", "txt">>, FALSE, TRUE, FALSE)
    /\ NoSessions /\ NoApi /\ voice = VoiceInputHandler
    /\ \E text \in TranslateTexts, source_language \in GivenLanguages,
          detectApi \in DetectOutcomes, translateApi \in TranslateOutcomes :
          trCall = [text |-> text, source_language |-> source_language,
                    detectApi |-> detectApi, translateApi |-> translateApi,
                    result |-> <<>>]

\* service.translate_to_english(text, source_language)
Translate ==
    /\ pc = "translator"
    /\ trCall.result = <<>>
    /\ trCall' = [trCall EXCEPT !.result =
                     <<translate_to_english(trCall.text, trCall.source_language,
                                            trCall.detectApi, trCall.translateApi)>>]
    /\ UNCHANGED <<loggerVars, envVars, histVars, botVars, loggers, store, response, voice>>

SpecTranslate == InitTranslate /\ [][Translate]_vars

\* ------------------------------------------------------------ bot()
\* Positions of bot():
\*   "run"               session = await runner.run()
\*   "enter"             async with session
\*   "start"             logger.add_entry("SYSTEM", "Hotel receptionist agent started")
\*   "loop"              async for event in session
\*   "except_interrupt"  the handler of KeyboardInterrupt
\*   "except_error"      the handler of Exception
\*   "finally"           logger.add_entry("SYSTEM", "Session ended")
\*   "save_full"         logger.save_full_transcript() in _save_transcripts
\*   "save_json"         logger.save_json_transcript() in _save_transcripts
\*   "returned"          bot() has returned the transcript string
\*   "raised"            bot() has raised out of the try statement
\*   "not_started"       runner.run() raised: there was no session
Started == <<"Hotel receptionist agent started">>
SessionError == <<"Session error: ", "e">>
Ended == <<"Session ended">>

UserEvent == "conversation.item.input_audio_transcription.completed"
AgentEvent == "response.audio_transcript.done"
OtherEvent == "response.created"

\* event.transcript of the utterance events
EventTranscripts == {Hola, Hello}

\* The events the session may deliver; an event of another type carries no
\* transcript.
Events ==
    {[type |-> type, transcript |-> text] :
        type \in {UserEvent, AgentEvent}, text \in EventTranscripts}
    \cup {[type |-> OtherEvent, transcript |-> Empty]}

\* A faulty _process_conversation_event: the second branch is an else and takes
\* every other event.
_process_conversation_event_else(event) ==
    IF event.type = UserEvent
    THEN <<[speaker |-> USER, message |-> event.transcript]>>
    ELSE <<[speaker |-> RECEPTIONIST, message |-> event.transcript]>>

\* _process_conversation_event: the logger.add_entry calls it makes for an event.
_process_conversation_event(event) ==
    IF event.type = UserEvent
    THEN <<[speaker |-> USER, message |-> event.transcript]>>
    ELSE IF event.type = AgentEvent
         THEN <<[speaker |-> RECEPTIONIST, message |-> event.transcript]>>
         ELSE <<>>

\* logger.add_entry(speaker, message) at a position of bot(): on success bot()
\* goes on at okPc; when the file write raises, at failPc.  `pending` is the
\* exception that leaves the try statement once the finally block is done: an
\* OSError raised in the try block goes to the handler of Exception instead
\* (inTry).
BotLog(speaker, message, okPc, failPc, inTry) ==
    \E t \in now..MaxClock, io \in IoOutcomes :
        /\ Logged(add_entry(transcript, enable_translation, filename, fs,
                            speaker, message, NoTimestamp, t, SpanishAdapter, io),
                  speaker, message, SpanishAdapter, io)
        /\ now' = t
        /\ pc' = IF last'.raised = NoError THEN okPc ELSE failPc
        /\ pending' = IF last'.raised = NoError \/ inTry THEN pending ELSE last'.raised
        /\ UNCHANGED <<filename, base_filename, enable_translation, translator,
                       ctor, fullRuns, jsonRuns>>

\* logger = TranscriptLogger(): no filename, translation requested.
InitBot ==
    /\ pc = "run"
    /\ \E initOk \in BOOLEAN : Construct(NoFilename, TRUE, initOk, FALSE)
    /\ NoSessions /\ NoApi /\ voice = VoiceInputHandler /\ NoTranslateCall

BotRun ==
    /\ pc = "run"
    /\ \E ok \in BOOLEAN :
          /\ pc' = IF ok THEN "enter" ELSE "not_started"
          /\ pending' = IF ok THEN pending ELSE "Exception"
    /\ UNCHANGED <<loggerVars, envVars, histVars, delivered, called>>
    /\ UNCHANGED appVars

\* async with session: __aenter__ returns or raises.
BotEnter ==
    /\ pc = "enter"
    /\ \E ok \in BOOLEAN :
          /\ pc' = IF ok THEN "start" ELSE "except_error"
          /\ pending' = pending
    /\ UNCHANGED <<loggerVars, envVars, histVars, delivered, called>>
    /\ UNCHANGED appVars

BotStart ==
    /\ pc = "start"
    /\ BotLog(SYSTEM, Started, "loop", "except_error", TRUE)
    /\ UNCHANGED <<delivered, called>>
    /\ UNCHANGED appVars

\* _process_conversation_event on the next event of the stream
BotEvent ==
    /\ pc = "loop"
    /\ Len(delivered) < MaxEvents
    /\ \E event \in Events :
          /\ delivered' = Append(delivered, event)
          /\ IF _process_conversation_event(event) # <<>>
             THEN BotLog(_process_conversation_event(event)[1].speaker,
                         _process_conversation_event(event)[1].message,
                         "loop", "except_error", TRUE)
             ELSE UNCHANGED <<loggerVars, envVars, histVars, pc, pending>>
    /\ UNCHANGED called
    /\ UNCHANGED appVars

\* The stream ends: the try block is left normally.
BotStreamEnd ==
    /\ pc = "loop"
    /\ pc' = "finally"
    /\ UNCHANGED <<loggerVars, envVars, histVars, delivered, pending, called>>
    /\ UNCHANGED appVars

\* The hosted service fails: the await raises an Exception.
BotSessionError ==
    /\ pc = "loop"
    /\ pc' = "except_error"
    /\ UNCHANGED <<loggerVars, envVars, histVars, delivered, pending, called>>
    /\ UNCHANGED appVars

\* KeyboardInterrupt is raised in the try block, before or after the session
\* is entered.
BotInterrupt ==
    /\ pc \in {"enter", "start", "loop"}
    /\ pc' = "except_interrupt"
    /\ UNCHANGED <<loggerVars, envVars, histVars, delivered, pending, called>>
    /\ UNCHANGED appVars

\* The task is cancelled: CancelledError is no Exception, no handler takes it,
\* and it is in flight while the finally block runs.
BotCancel ==
    /\ pc \in {"enter", "start", "loop"}
    /\ pc' = "finally"
    /\ pending' = "CancelledError"
    /\ UNCHANGED <<loggerVars, envVars, histVars, delivered, called>>
    /\ UNCHANGED appVars

BotExceptInterrupt ==
    /\ pc = "except_interrupt"
    /\ BotLog(SYSTEM, <<"Session interrupted by user">>, "finally", "finally", FALSE)
    /\ UNCHANGED <<delivered, called>>
    /\ UNCHANGED appVars

\* A faulty handler of Exception: it records the end of the session itself.
BotExceptError_logs_end ==
    /\ pc = "except_error"
    /\ BotLog(SYSTEM, Ended, "finally", "finally", FALSE)
    /\ UNCHANGED <<delivered, called>>
    /\ UNCHANGED appVars

BotExceptError ==
    /\ pc = "except_error"
    /\ BotLog(SYSTEM, SessionError, "finally", "finally", FALSE)
    /\ UNCHANGED <<delivered, called>>
    /\ UNCHANGED appVars

\* finally: the add_entry; when it raises, _save_transcripts is not reached.
BotFinally ==
    /\ pc = "finally"
    /\ BotLog(SYSTEM, Ended, "save_full", "raised", FALSE)
    /\ UNCHANGED <<delivered, called>>
    /\ UNCHANGED appVars

BotSaveFull ==
    /\ pc = "save_full"
    /\ called' = called \cup {"save_full_transcript"}
    /\ \E io1 \in IoOutcomes, io2 \in IoOutcomes :
          LET r == save_full_transcript(fs, filename, base_filename, enable_translation,
                                        transcript, io1, io2)
          IN  /\ (io1 = "ok" /\ enable_translation) \/ io2 = "ok"
              /\ fs' = r.fs
              /\ last' = [op |-> "save_full", raised |-> r.raised,
                          io |-> IF io1 # "ok" THEN io1 ELSE io2,
                          adapter |-> "not_called", ret |-> r.ret, again |-> FALSE]
              /\ pc' = IF r.raised = NoError THEN "save_json" ELSE "raised"
              /\ pending' = IF r.raised = NoError THEN pending ELSE r.raised
    /\ UNCHANGED <<loggerVars, now, ctor, callLog, adapterCalls, fullRuns, jsonRuns,
                   delivered>>
    /\ UNCHANGED appVars

BotSaveJson ==
    /\ pc = "save_json"
    /\ called' = called \cup {"save_json_transcript"}
    /\ \E io \in IoOutcomes :
          LET r == save_json_transcript(fs, base_filename, transcript, io)
          IN  /\ fs' = r.fs
              /\ last' = [op |-> "save_json", raised |-> r.raised, io |-> io,
                          adapter |-> "not_called", ret |-> r.ret, again |-> FALSE]
              /\ pc' = IF r.raised = NoError /\ pending = NoError
                       THEN "returned" ELSE "raised"
              /\ pending' = IF r.raised = NoError THEN pending ELSE r.raised
    /\ UNCHANGED <<loggerVars, now, ctor, callLog, adapterCalls, fullRuns, jsonRuns,
                   delivered>>
    /\ UNCHANGED appVars

NextBot ==
    \/ BotRun \/ BotEnter \/ BotStart \/ BotEvent \/ BotStreamEnd \/ BotSessionError
    \/ BotInterrupt \/ BotCancel \/ BotExceptInterrupt \/ BotExceptError
    \/ BotFinally \/ BotSaveFull \/ BotSaveJson

SpecBot == InitBot /\ [][NextBot]_vars

\* ------------------------------------------------------------ sessions of one process
\* --- SpecSessions: the loggers of the sessions one process runs, each
\* constructed by bot() without a filename.  The endpoint is a coroutine, so a
\* second session may start while the first one is waiting for its events; the
\* sessions share the working directory and the clock.
NewSession ==
    /\ pc = "sessions"
    /\ Len(loggers) < MaxSessions
    /\ \E initOk \in BOOLEAN :
          loggers' = Append(loggers, TranscriptLogger(NoFilename, TRUE, initOk, now))
    /\ UNCHANGED <<loggerVars, envVars, histVars, botVars, store, response, trCall, voice>>

\* A second passes.
Tick ==
    /\ pc = "sessions"
    /\ now < MaxClock
    /\ now' = now + 1
    /\ UNCHANGED <<loggerVars, fs, histVars, botVars, appVars>>

\* The effect of an operation of session i that left the transcript and the
\* files of r.
SessionDid(i, r) ==
    /\ loggers' = [loggers EXCEPT ![i].transcript = r.transcript]
    /\ fs' = r.fs
    /\ UNCHANGED <<loggerVars, now, histVars, botVars, store, response, trCall, voice>>

\* Session i: logger.add_entry("SYSTEM", message)
SessionAddEntry ==
    /\ pc = "sessions"
    /\ \E i \in 1..Len(loggers), message \in EventTranscripts :
          /\ Len(loggers[i].transcript) < MaxEntries
          /\ SessionDid(i, add_entry(loggers[i].transcript, loggers[i].enable_translation,
                                     loggers[i].filename, fs, SYSTEM, message,
                                     NoTimestamp, now, SpanishAdapter, "ok"))

\* Session i: _save_transcripts(logger)
SessionSave ==
    /\ pc = "sessions"
    /\ \E i \in 1..Len(loggers) :
          LET L == loggers[i]
              full == save_full_transcript(fs, L.filename, L.base_filename,
                                           L.enable_translation, L.transcript, "ok", "ok")
          IN  SessionDid(i, [transcript |-> L.transcript,
                             fs |-> save_json_transcript(full.fs, L.base_filename,
                                                         L.transcript, "ok").fs])

InitSessions ==
    /\ pc = "sessions"
    /\ Construct(<<"t", ".", "txt">>, FALSE, TRUE, FALSE)
    /\ NoSessions /\ NoApi /\ voice = VoiceInputHandler /\ NoTranslateCall

NextSessions == NewSession \/ Tick \/ SessionAddEntry \/ SessionSave

SpecSessions == InitSessions /\ [][NextSessions]_vars

\* ------------------------------------------------------------ reservation store and HTTP API
\* The store file hotel_requests.json is [exists, records]: whether the file
\* exists, and the JSON objects of the array it holds, each a sequence of
\* <<key, JSON text>> pairs.
RequestKeys ==
    <<"Available", "CheckInDate", "CheckoutDate", "NumberOfGuests",
      "guest_name", "room_type", "special_requests">>

\* The HotelRequest records the model saves.
Requests ==
    {[Available |-> a, CheckInDate |-> <<"2025-09-21">>, CheckoutDate |-> <<"2025-09-25">>,
      NumberOfGuests |-> 2, guest_name |-> g, room_type |-> <<"suite">>,
      special_requests |-> <<"Ocean view">>] :
        a \in BOOLEAN, g \in {<<"Alice">>, <<"John", " ", "Smith">>}}

\* JSON text of a field: a bool as true or false, an int in digits, a str
\* between quotes.
request_json_value(key, v) ==
    CASE key = "Available" -> IF v THEN <<"true">> ELSE <<"false">>
      [] key = "NumberOfGuests" -> <<Digit(v)>>
      [] OTHER -> <<Quote>> \o v \o <<Quote>>

request_json(request) ==
    [i \in 1..Len(RequestKeys) |->
        <<RequestKeys[i], request_json_value(RequestKeys[i], request[RequestKeys[i]])>>]

\* json.load of one JSON text.
json_loads(v) ==
    IF v = <<"true">> THEN TRUE
    ELSE IF v = <<"false">> THEN FALSE
    ELSE IF v[1] = Quote THEN SubSeq(v, 2, Len(v) - 1)
    ELSE (CHOOSE n \in 1..Len(Digits) : Digits[n] = v[1]) - 1

json_loads_object(pairs) ==
    [k \in {pairs[j][1] : j \in 1..Len(pairs)} |->
        LET j == CHOOSE i \in 1..Len(pairs) : pairs[i][1] = k
        IN  json_loads(pairs[j][2])]

FileNotFoundError == <<"[Errno 2] No such file or directory: 'hotel_requests.json'">>

\* load_json(filename): [raised, value]; open() raises when the file is missing.
load_json(st) ==
    IF ~st.exists
    THEN [raised |-> TRUE, value |-> <<>>]
    ELSE [raised |-> FALSE,
          value |-> [i \in 1..Len(st.records) |-> json_loads_object(st.records[i])]]

\* A faulty save_request_to_json: the file is rewritten with the new record
\* alone.
save_request_to_json_overwrites(st, request) ==
    [exists |-> TRUE, records |-> <<request_json(request)>>]

\* save_request_to_json(request, filename): load the existing array or start
\* empty, append the record, rewrite the whole file.
save_request_to_json(st, request) ==
    [exists |-> TRUE,
     records |-> (IF st.exists THEN st.records ELSE <<>>) \o <<request_json(request)>>]

\* What the framework answers when the endpoint function raises anything but an
\* HTTPException.
InternalServerError == <<"Internal Server Error">>

Respond(endpoint, status, body, detail, cause, error, st) ==
    [endpoint |-> endpoint, status |-> status, body |-> body, detail |-> detail,
     cause |-> cause, error |-> error,
     before |-> IF st.exists THEN Len(st.records) ELSE 0]

\* POST /bot, the session of bot() having returned (botOk) or raised.
bot_async_conversation(st, botOk) ==
    IF ~botOk
    THEN Respond("bot", 500, <<>>, InternalServerError, "session",
                 <<"session failed">>, st)
    ELSE IF load_json(st).raised
         THEN Respond("bot", 500, <<>>, InternalServerError, "read", FileNotFoundError, st)
         ELSE IF load_json(st).value # <<>>
              THEN Respond("bot", 200, <<load_json(st).value[Len(load_json(st).value)]>>,
                           <<>>, "none", <<>>, st)
              ELSE Respond("bot", 204, <<[status |-> <<"no reservation saved">>]>>,
                           <<>>, "none", <<>>, st)

\* POST /database, create_client and the insert succeeding or raising.
upload_to_supabase(st, clientOk, insertOk) ==
    IF load_json(st).raised
    THEN Respond("database", 500, <<>>, InternalServerError, "read", FileNotFoundError, st)
    ELSE IF ~clientOk
         THEN Respond("database", 500, <<>>, <<"Invalid URL">>, "client",
                      <<"Invalid URL">>, st)
         ELSE IF ~insertOk
              THEN Respond("database", 500, <<>>, <<"insert failed">>, "insert",
                           <<"insert failed">>, st)
              ELSE Respond("database", 200,
                           <<[status |-> <<"success">>,
                              inserted_records |-> Len(load_json(st).value)]>>,
                           <<>>, "none", <<>>, st)

\* --- SpecTimestamps: add_entry with the timestamp omitted or supplied.
InitTimestamps ==
    /\ pc = "logger"
    /\ Construct(<<"t", ".", "txt">>, FALSE, TRUE, FALSE)
    /\ NoSessions /\ NoApi /\ voice = VoiceInputHandler /\ NoTranslateCall

AddEntryAt ==
    AddEntryFrom(StorageSpeakers, {Hola, Hello}, {NoTimestamp} \cup 0..MaxClock,
                 0..MaxClock, {SpanishAdapter}, {"ok"})

SpecTimestamps == InitTimestamps /\ [][AddEntryAt]_vars

\* --- SpecPaths: loggers constructed with a filename of the caller's choice.
Filenames ==
    {<<"t", ".", "txt">>, <<"t">>, <<"t", ".", "json">>,
     <<"out", "/", "t", ".", "txt">>, <<"out", ".", "d", "/", "t">>}

InitPaths ==
    /\ pc = "logger"
    /\ \E filenameArg \in Filenames, enable \in BOOLEAN :
          Construct(filenameArg, enable, TRUE, FALSE)
    /\ NoSessions /\ NoApi /\ voice = VoiceInputHandler /\ NoTranslateCall

AddEntryPaths ==
    AddEntryFrom(StorageSpeakers, {Hola}, {NoTimestamp}, {0}, {SpanishAdapter}, {"ok"})

NextPaths == AddEntryPaths \/ SaveFullOk \/ SaveJsonOk

SpecPaths == InitPaths /\ [][NextPaths]_vars

\* ------------------------------------------------------------ voice input handler
\* A device stream is [started, active, closed]: start() succeeded on it, it is
\* running, close() succeeded on it.
Called(v, op) == [v EXCEPT !.op = op, !.was = v.is_recording, !.had = Len(v.streams)]

\* start_recording(), sd.InputStream(...) and stream.start() succeeding or
\* raising.
start_recording(v, openOk, startOk) ==
    IF v.is_recording
    THEN [v EXCEPT !.ret = <<FALSE>>]
    ELSE IF ~openOk
         THEN [v EXCEPT !.ret = <<FALSE>>]
         ELSE IF ~startOk
              THEN [v EXCEPT !.streams = Append(v.streams,
                                 [started |-> FALSE, active |-> FALSE, closed |-> FALSE]),
                             !.stream = Len(v.streams) + 1,
                             !.ret = <<FALSE>>]
              ELSE [v EXCEPT !.streams = Append(v.streams,
                                 [started |-> TRUE, active |-> TRUE, closed |-> FALSE]),
                             !.stream = Len(v.streams) + 1,
                             !.is_recording = TRUE,
                             !.ret = <<TRUE>>]

\* stop_recording(), stream.stop() and stream.close() succeeding or raising.
stop_recording(v, stopOk, closeOk) ==
    IF ~v.is_recording
    THEN [v EXCEPT !.ret = <<>>]
    ELSE IF ~stopOk
         THEN [v EXCEPT !.ret = <<>>]
         ELSE IF ~closeOk
              THEN [v EXCEPT !.streams[v.stream].active = FALSE, !.ret = <<>>]
              ELSE [v EXCEPT !.streams[v.stream].active = FALSE,
                             !.streams[v.stream].closed = TRUE,
                             !.is_recording = FALSE,
                             !.ret = <<>>]

\* --- SpecVoice: one handler and its callers.
VoiceDid(v) ==
    /\ voice' = v
    /\ UNCHANGED <<loggerVars, envVars, histVars, botVars, loggers, store, response, trCall>>

StartRecording ==
    /\ pc = "voice"
    /\ voice.is_recording \/ Len(voice.streams) < MaxStreams
    /\ \E openOk \in BOOLEAN, startOk \in BOOLEAN :
          VoiceDid(start_recording(Called(voice, "start_recording"), openOk, startOk))

StopRecording ==
    /\ pc = "voice"
    /\ \E stopOk \in BOOLEAN, closeOk \in BOOLEAN :
          VoiceDid(stop_recording(Called(voice, "stop_recording"), stopOk, closeOk))

\* with handler: ...
Enter ==
    /\ pc = "voice"
    /\ voice.is_recording \/ Len(voice.streams) < MaxStreams
    /\ \E openOk \in BOOLEAN, startOk \in BOOLEAN :
          VoiceDid([start_recording(Called(voice, "__enter__"), openOk, startOk)
                        EXCEPT !.ret = <<>>])

Exit ==
    /\ pc = "voice"
    /\ \E stopOk \in BOOLEAN, closeOk \in BOOLEAN :
          VoiceDid(stop_recording(Called(voice, "__exit__"), stopOk, closeOk))

InitVoice ==
    /\ pc = "voice"
    /\ Construct(<<"t", ".", "txt">>, FALSE, TRUE, FALSE)
    /\ NoSessions /\ NoApi /\ voice = VoiceInputHandler /\ NoTranslateCall

NextVoice == StartRecording \/ StopRecording \/ Enter \/ Exit

SpecVoice == InitVoice /\ [][NextVoice]_vars

\* --- SpecApi: the two endpoints and the store.
\* The extraction step saves a record.
SaveRequest ==
    /\ pc = "api"
    /\ Len(store.records) < MaxRecords
    /\ \E request \in Requests :
          /\ store' = save_request_to_json(store, request)
          /\ response' = Respond("save_request_to_json", 0, <<request>>, <<>>,
                                 "none", <<>>, store)
    /\ UNCHANGED <<loggerVars, envVars, histVars, botVars, loggers, trCall, voice>>

\* POST /bot: bot() constructs its logger and runs the session; nothing in
\* bot() writes the store.
PostBot ==
    /\ pc = "api"
    /\ Len(loggers) < MaxSessions
    /\ loggers' = Append(loggers, TranscriptLogger(NoFilename, TRUE, TRUE, now))
    /\ \E botOk \in BOOLEAN : response' = bot_async_conversation(store, botOk)
    /\ UNCHANGED <<loggerVars, envVars, histVars, botVars, store, trCall, voice>>

PostDatabase ==
    /\ pc = "api"
    /\ \E clientOk \in BOOLEAN, insertOk \in BOOLEAN :
          response' = upload_to_supabase(store, clientOk, insertOk)
    /\ UNCHANGED <<loggerVars, envVars, histVars, botVars, loggers, store, trCall, voice>>

InitApi ==
    /\ pc = "api"
    /\ Construct(<<"t", ".", "txt">>, FALSE, TRUE, FALSE)
    /\ NoSessions /\ NoApi /\ voice = VoiceInputHandler /\ NoTranslateCall

NextApi == SaveRequest \/ PostBot \/ PostDatabase

SpecApi == InitApi /\ [][NextApi]_vars

\* ------------------------------------------------------------ properties
HasAllKeys(e) == Range(TranslationKeys) \subseteq DOMAIN e
HasNoKeys(e) == Range(TranslationKeys) \cap DOMAIN e = {}

\* The transcript file's lines (none when the file does not exist).
TranscriptFile == IF filename \in DOMAIN fs THEN fs[filename] ELSE <<>>

\* Reading a JSON object back: a quoted value is a str, true and false are bools.
json_load_value(v) ==
    IF v = <<"true">> THEN TRUE
    ELSE IF v = <<"false">> THEN FALSE
    ELSE SubSeq(v, 2, Len(v) - 1)

json_load_object(pairs) ==
    [k \in {pairs[j][1] : j \in 1..Len(pairs)} |->
        LET j == CHOOSE i \in 1..Len(pairs) : pairs[i][1] = k
        IN  json_load_value(pairs[j][2])]

\* The JSON file holds one document, an array that reads back as `entries`.
JsonFileHolds(entries) ==
    /\ json_path(base_filename) \in DOMAIN fs
    /\ LET f == fs[json_path(base_filename)]
       IN  /\ Len(f) = 1
           /\ f[1].kind = "json"
           /\ Len(f[1].array) = Len(entries)
           /\ \A i \in 1..Len(entries) : json_load_object(f[1].array[i]) = entries[i]

\* C1: the transcript has exactly one entry per add_entry call, in call order,
\* with the call's speaker, message and timestamp, whether or not the call's
\* file write failed; and when save_json_transcript has just returned, the JSON
\* file holds an array that reads back as exactly the in-memory sequence.
C1_OneEntryPerCallAndJsonExport ==
    /\ Len(transcript) = Len(callLog)
    /\ \A i \in 1..Len(callLog) :
          /\ transcript[i].speaker = callLog[i].speaker
          /\ transcript[i].message = callLog[i].message
          /\ transcript[i].timestamp = isoformat(callLog[i].timestamp)
    /\ (last.op = "save_json" /\ last.raised = NoError) => JsonFileHolds(transcript)

\* Two calls, one of them translated, one with an empty message and a failed
\* file write, then a JSON export.
C1_Witness ==
    /\ last.op = "save_json" /\ last.raised = NoError
    /\ Len(transcript) = 2
    /\ HasAllKeys(transcript[1]) /\ transcript[1].needs_translation
    /\ transcript[2].message = Empty
    /\ Len(TranscriptFile) = 1

\* C2: an entry of a speaker other than USER and RECEPTIONIST carries none of
\* translated, source_language, needs_translation; an entry of USER or
\* RECEPTIONIST carries all three when translation is enabled and none when it is
\* not; no entry carries only some of them.
C2_TranslationGating ==
    \A i \in 1..Len(transcript) :
        LET e == transcript[i]
        IN  IF enable_translation /\ e.speaker \in {USER, RECEPTIONIST}
            THEN HasAllKeys(e)
            ELSE HasNoKeys(e)

\* Translation enabled, a SYSTEM entry without keys beside a RECEPTIONIST entry
\* made from a result that lacked a key.
C2_Witness ==
    /\ enable_translation
    /\ Len(transcript) = 2
    /\ transcript[1].speaker = SYSTEM
    /\ transcript[2].speaker = RECEPTIONIST
    /\ last.adapter = "missing"

\* C3: when the adapter raised or returned a result without one of the three
\* fields, add_entry has appended the entry with translated = message,
\* source_language = "Unknown", needs_translation = False; it raises only when
\* the file write failed, and otherwise the entry's line ends the file.
C3_FallbackOnAdapterFailure ==
    (last.op = "add_entry" /\ last.adapter \in {"raises", "missing"}) =>
        /\ Len(transcript) = Len(callLog)
        /\ LET e == transcript[Len(transcript)]
               c == callLog[Len(callLog)]
           IN  /\ e.speaker = c.speaker /\ e.message = c.message
               /\ HasAllKeys(e)
               /\ e.translated = e.message
               /\ e.source_language = Unknown
               /\ e.needs_translation = FALSE
               /\ (last.raised # NoError) => (last.io # "ok")
               /\ (last.io = "ok") =>
                     /\ TranscriptFile # <<>>
                     /\ TranscriptFile[Len(TranscriptFile)] =
                            Line(strftime_HMS(c.timestamp), e.speaker, e.message)

\* The adapter raised on a USER message and the line was written.
C3_Witness ==
    /\ last.op = "add_entry" /\ last.adapter = "raises" /\ last.io = "ok"
    /\ transcript[Len(transcript)].speaker = USER
    /\ transcript[Len(transcript)].message = Hola

\* C4: when bot() has left a session, by returning or by raising, the final
\* SYSTEM entry was added and both save_full_transcript and
\* save_json_transcript were called.
C4_FinalizationAlwaysRuns ==
    pc \in {"returned", "raised"} =>
        /\ transcript # <<>>
        /\ transcript[Len(transcript)].speaker = SYSTEM
        /\ transcript[Len(transcript)].message = Ended
        /\ called = {"save_full_transcript", "save_json_transcript"}

\* C5: when save_full_transcript has just returned, the transcript file holds
\* exactly one whole line per in-memory entry, in order, with the entry's
\* timestamp, speaker and message.
C5_RewriteMatchesTranscript ==
    (last.op = "save_full" /\ last.raised = NoError) =>
        /\ filename \in DOMAIN fs
        /\ Len(fs[filename]) = Len(transcript)
        /\ \A i \in 1..Len(transcript) :
              /\ fs[filename][i].kind = "line"
              /\ fs[filename][i].ts = transcript[i].timestamp
              /\ fs[filename][i].speaker = transcript[i].speaker
              /\ fs[filename][i].text = transcript[i].message

\* The file held a line of an earlier run when the logger was constructed; two
\* entries were added and save_full_transcript returned.
C5_Witness ==
    /\ last.op = "save_full" /\ last.raised = NoError
    /\ ctor.preexisting
    /\ Len(transcript) = 2

\* Every add_entry so far wrote its line to a file that did not exist before.
CleanAppends ==
    /\ ~ctor.preexisting
    /\ Len(TranscriptFile) = Len(transcript)
    /\ \A i \in 1..Len(TranscriptFile) : TranscriptFile[i].kind = "line"

\* C6: the transcript file only grows: what a reader has seen of it between
\* add_entry calls is a prefix of what it holds after save_full_transcript
\* (stated for the sessions in which no write failed and the file was new).
C6_TailIsPrefixOfFinal ==
    [][(CleanAppends /\ last'.op = "save_full" /\ last'.raised = NoError)
          => IsPrefix(TranscriptFile, TranscriptFile')]_vars

\* C7: after any add_entry calls the file has as many lines as the transcript
\* has entries, and line i carries the speaker and message of entry i.
C7_FileMirrorsTranscript ==
    (callLog # <<>>) =>
        /\ Len(TranscriptFile) = Len(transcript)
        /\ \A i \in 1..Len(transcript) :
              /\ TranscriptFile[i].speaker = transcript[i].speaker
              /\ TranscriptFile[i].text = transcript[i].message

\* C8: the successful save_full_transcript calls since the last add_entry all
\* left the same contents in the files they write, returned the same paths and
\* saw the same transcript; likewise the save_json_transcript calls.
C8_SavesIdempotent == Cardinality(fullRuns) <= 1 /\ Cardinality(jsonRuns) <= 1

\* save_full_transcript returned a second time with no add_entry in between, with
\* translation enabled and a translated entry in the transcript.
C8_Witness ==
    /\ last.op = "save_full" /\ last.raised = NoError /\ last.again
    /\ enable_translation
    /\ \E i \in 1..Len(transcript) : HasAllKeys(transcript[i])

\* C9: when translation was requested and the adapter failed to initialise,
\* construction did not raise and the logger is as one constructed with
\* translation off: no entry has a translation key, the adapter is never
\* invoked, no bilingual file is written, and save_full_transcript returns None
\* for the bilingual path.
C9_InitFailureDisablesTranslation ==
    (ctor.requested /\ ~ctor.initOk) =>
        /\ ~ctor.raised
        /\ enable_translation = TranscriptLogger(ctor.filenameArg, FALSE, TRUE, 0).enable_translation
        /\ translator = TranscriptLogger(ctor.filenameArg, FALSE, TRUE, 0).translator
        /\ \A i \in 1..Len(transcript) : HasNoKeys(transcript[i])
        /\ adapterCalls = 0
        /\ bilingual_path(base_filename) \notin DOMAIN fs
        /\ (last.op = "save_full" /\ last.raised = NoError) =>
              last.ret = <<filename, NoPath>>

\* After a failed initialisation a USER entry was added and save_full_transcript
\* returned.
C9_Witness ==
    /\ ctor.requested /\ ~ctor.initOk
    /\ last.op = "save_full" /\ last.raised = NoError
    /\ \E i \in 1..Len(transcript) : transcript[i].speaker = USER

\* C10: construction does not raise and does not touch the files; an add_entry,
\* save_full_transcript or save_json_transcript call whose file write failed
\* raises the OSError.
C10_StorageErrorsPropagate ==
    /\ ~ctor.raised
    /\ (callLog = <<>> /\ last.op = "init") =>
          fs = IF ctor.preexisting THEN (filename :> <<StaleLine>>) ELSE NoFiles
    /\ (last.op \in {"add_entry", "save_full", "save_json"} /\ last.io # "ok") =>
          last.raised = OSError

\* The first add_entry call on a directory that does not allow writes.
C10_Witness ==
    /\ Len(callLog) = 1
    /\ last.op = "add_entry" /\ last.io = "EACCES" /\ last.raised = OSError
    /\ TranscriptFile = <<>>

\* C11: an add_entry call, failing or not, leaves every line the transcript
\* file held before it unchanged and in its position: the file before the call
\* is a prefix of the file after it.
C11_AppendKeepsEarlierLines ==
    [][last'.op = "add_entry" => IsPrefix(TranscriptFile, TranscriptFile')]_vars

\* A first add_entry call wrote its line, a second one failed at the file write
\* (at open, or in the middle of the line), and the first line is still there.
C11_Witness ==
    /\ ~ctor.preexisting
    /\ Len(callLog) = 2
    /\ last.op = "add_entry" /\ last.raised = OSError
    /\ TranscriptFile # <<>>
    /\ TranscriptFile[1] = Line(strftime_HMS(callLog[1].timestamp),
                                callLog[1].speaker, callLog[1].message)

\* The language names that _should_translate takes for "no translation".
NotForeign(language) == Lower(language) \in {<<"english">>, <<"unknown">>}

NeedsTranslation(e) == "needs_translation" \in DOMAIN e /\ e.needs_translation

\* The number of lines before the block of entry i: the banner with its blank
\* line, and three or five lines for each earlier entry.
RECURSIVE BlockStart(_)
BlockStart(i) ==
    IF i = 1
    THEN 4
    ELSE BlockStart(i - 1) + (IF NeedsTranslation(transcript[i - 1]) THEN 5 ELSE 3)

\* C13: when save_full_transcript has just returned on a translating logger,
\* the bilingual file is the three-line banner, a blank line, and one block per
\* in-memory entry in order: the header with timestamp and speaker, the
\* Original: line, the English: and (Detected: ...) lines exactly when the entry
\* carries needs_translation == true, and a blank line.
C13_BilingualBlocks ==
    (last.op = "save_full" /\ last.raised = NoError /\ enable_translation) =>
        LET f == IF bilingual_path(base_filename) \in DOMAIN fs
                 THEN fs[bilingual_path(base_filename)] ELSE <<>>
        IN  /\ Len(f) = BlockStart(Len(transcript) + 1)
            /\ <<f[1].kind, f[2].kind, f[3].kind, f[4].kind>> =
                   <<"rule", "title", "rule", "blank">>
            /\ \A i \in 1..Len(transcript) :
                  LET e == transcript[i]
                      at == BlockStart(i)
                      end == BlockStart(i + 1)
                  IN  /\ f[at + 1].kind = "header"
                      /\ f[at + 1].ts = e.timestamp
                      /\ f[at + 1].speaker = e.speaker
                      /\ f[at + 2].kind = "original"
                      /\ f[at + 2].text = e.message
                      /\ f[end].kind = "blank"
                      /\ IF NeedsTranslation(e)
                         THEN /\ end = at + 5
                              /\ f[at + 3].kind = "english"
                              /\ f[at + 3].text = e.translated
                              /\ f[at + 4].kind = "detected"
                              /\ f[at + 4].text = e.source_language
                         ELSE end = at + 3

\* An export of a translated entry beside a USER entry with
\* needs_translation == False and a foreign language.
C13_Witness ==
    /\ last.op = "save_full" /\ last.raised = NoError
    /\ Len(transcript) = 2
    /\ NeedsTranslation(transcript[1])
    /\ HasAllKeys(transcript[2])
    /\ ~transcript[2].needs_translation
    /\ transcript[2].source_language = Spanish

\* The utterance events among the events delivered, the add_entry calls with an
\* utterance speaker, and the utterance entries of the transcript.
UtteranceEvents == SelectSeq(delivered, LAMBDA e : e.type \in {UserEvent, AgentEvent})
UtteranceCalls == SelectSeq(callLog, LAMBDA c : c.speaker \in {USER, RECEPTIONIST})
UtteranceEntries == SelectSeq(transcript, LAMBDA e : e.speaker \in {USER, RECEPTIONIST})

\* C14: in bot(), the add_entry calls with speaker USER or RECEPTIONIST are,
\* in order, exactly the completed-user-utterance and completed-agent-utterance
\* events delivered, each with the event's transcript as message (USER for the
\* former, RECEPTIONIST for the latter); every other call is a SYSTEM call of
\* the driver; and the transcript holds these entries in the same order.
C14_OneCallPerUtteranceEvent ==
    /\ Len(UtteranceCalls) = Len(UtteranceEvents)
    /\ Len(UtteranceEntries) = Len(UtteranceEvents)
    /\ \A i \in 1..Len(callLog) : callLog[i].speaker \in {SYSTEM, USER, RECEPTIONIST}
    /\ \A i \in 1..Len(UtteranceEvents) :
          LET speaker == IF UtteranceEvents[i].type = UserEvent THEN USER ELSE RECEPTIONIST
          IN  /\ UtteranceCalls[i].speaker = speaker
              /\ UtteranceCalls[i].message = UtteranceEvents[i].transcript
              /\ UtteranceEntries[i].speaker = speaker
              /\ UtteranceEntries[i].message = UtteranceEvents[i].transcript

\* An event of another kind was delivered, then an agent utterance whose line
\* could not be written.
C14_Witness ==
    /\ Len(delivered) = 2
    /\ delivered[1].type = OtherEvent
    /\ delivered[2].type = AgentEvent
    /\ Len(UtteranceEntries) = 1
    /\ last.op = "add_entry" /\ last.raised = OSError

\* The positions of the SYSTEM entries with the given message.
SystemEntries(message) ==
    {i \in 1..Len(transcript) :
        transcript[i].speaker = SYSTEM /\ transcript[i].message = message}

\* C15: when a run of bot() is over (it returned, it raised, or the session
\* could not be opened), the transcript holds exactly one start entry, before
\* every USER and RECEPTIONIST entry, and exactly one end entry, after every
\* other entry.
C15_OneStartOneEnd ==
    pc \in {"returned", "raised", "not_started"} =>
        /\ Cardinality(SystemEntries(Started)) = 1
        /\ \A i \in SystemEntries(Started), j \in 1..Len(transcript) :
              transcript[j].speaker \in {USER, RECEPTIONIST} => i < j
        /\ SystemEntries(Ended) = {Len(transcript)}

\* C15 amended: when bot() has left its try statement, the transcript holds
\* exactly one end entry, after every other entry, and at most one start entry;
\* the start entry is the first entry, and it is missing only when the try block
\* was left before the session was entered (entering failed or was interrupted),
\* in which case there is no USER or RECEPTIONIST entry.  When runner.run()
\* raised, the transcript is empty.
C15_OneEndAndStartIfEntered ==
    /\ pc \in {"returned", "raised"} =>
          /\ SystemEntries(Ended) = {Len(transcript)}
          /\ SystemEntries(Started) \in {{}, {1}}
          /\ SystemEntries(Started) = {} =>
                /\ UtteranceEntries = <<>>
                /\ delivered = <<>>
    /\ pc = "not_started" => transcript = <<>>

\* A session that delivered two utterances and then failed: start entry, two
\* utterance entries, the error entry and the end entry.
C15_Witness ==
    /\ pc = "returned"
    /\ Len(UtteranceEntries) = 2
    /\ SystemEntries(Started) = {1}
    /\ SystemEntries(SessionError) = {4}
    /\ SystemEntries(Ended) = {5}

\* C16: no two loggers constructed without a filename in one process derive the
\* same filename, and no file is written by two sessions.
C16_DistinctDefaultFilenames ==
    \A i, j \in 1..Len(loggers) :
        i # j =>
            /\ loggers[i].filename # loggers[j].filename
            /\ {loggers[i].filename, bilingual_path(loggers[i].base_filename),
                json_path(loggers[i].base_filename)}
                 \cap {loggers[j].filename, bilingual_path(loggers[j].base_filename),
                       json_path(loggers[j].base_filename)} = {}


\* C17: the answer of POST /bot after a session that returned is the record
\* that session added to the store (status 200), or no-content (status 204)
\* when the session added none; it is never a record the store held before
\* the session, and never an error.
C17_BotReturnsThisSessionsRecord ==
    (response.endpoint = "bot" /\ response.cause # "session") =>
        /\ response.status \in {200, 204}
        /\ response.status = 200 =>
              /\ Len(store.records) > response.before
              /\ response.body = <<load_json(store).value[Len(store.records)]>>
        /\ response.status = 204 => Len(store.records) = response.before

\* C18: the answer of POST /database is success with inserted_records the
\* number of stored records, or, for a failure reading the store, creating
\* the client or inserting, status 500 with the failure's message as detail;
\* the store holds what it held before the request.
C18_UploadReportsEveryFailure ==
    response.endpoint = "database" =>
        /\ response.before = Len(store.records)
        /\ response.cause = "none" =>
              /\ response.status = 200
              /\ response.body[1].inserted_records = Len(store.records)
        /\ response.cause # "none" =>
              /\ response.status = 500
              /\ response.detail = response.error

\* C19: a save leaves the store file an array that is the array it held
\* before (none for a missing file) followed by the saved record, read back
\* with the field values it was saved with.
C19_SaveAppendsRecord ==
    [][response'.endpoint = "save_request_to_json" =>
          /\ store'.exists
          /\ Len(load_json(store').value) = Len(load_json(store).value) + 1
          /\ SubSeq(load_json(store').value, 1, Len(load_json(store).value))
                = load_json(store).value
          /\ load_json(store').value[Len(load_json(store').value)] = response'.body[1]
          /\ response'.body[1] \in Requests]_vars

C19_Witness ==
    /\ response.endpoint = "save_request_to_json"
    /\ response.before = 1
    /\ Len(load_json(store).value) = 2
    /\ load_json(store).value[2] = response.body[1]
    /\ load_json(store).value[1].guest_name # load_json(store).value[2].guest_name

\* The instant an isoformat text denotes.
fromisoformat(ts) ==
    ((CHOOSE n \in 1..Len(Digits) : Digits[n] = ts[1]) - 1) * TicksPerDay
        + ((CHOOSE n \in 1..Len(Digits) : Digits[n] = ts[3]) - 1)

\* C20 (as stated): the timestamps of the in-memory entries are non-decreasing
\* in sequence order, whether the calls omit the timestamp or supply one.
C20_TimestampsNonDecreasing ==
    \A i \in 1..(Len(transcript) - 1) : fromisoformat(transcript[i].timestamp) <= fromisoformat(transcript[i + 1].timestamp)

\* C20 (amended): each entry carries the timestamp supplied to its call, or
\* the current time of the call when none is supplied, and the timestamps are
\* non-decreasing in sequence order when every call omits the timestamp.
C20_TimestampsFollowCalls ==
    /\ Len(transcript) = Len(callLog)
    /\ \A i \in 1..Len(transcript) :
          fromisoformat(transcript[i].timestamp) = IF callLog[i].given = NoTimestamp
                            THEN callLog[i].clock ELSE callLog[i].given
    /\ (\A i \in 1..Len(callLog) : callLog[i].given = NoTimestamp) =>
          \A i \in 1..(Len(transcript) - 1) : fromisoformat(transcript[i].timestamp) <= fromisoformat(transcript[i + 1].timestamp)

C20_Witness ==
    /\ Len(transcript) = 2
    /\ \A i \in 1..Len(callLog) : callLog[i].given = NoTimestamp
    /\ fromisoformat(transcript[1].timestamp) < fromisoformat(transcript[2].timestamp)

\* os.path.dirname of a path.
dirname(path) ==
    LET slashes == {i \in 1..Len(path) : path[i] = "/"}
    IN  IF slashes = {} THEN <<>> ELSE SubSeq(path, 1, Max(slashes) - 1)

\* C21: the transcript file, the bilingual file and the JSON file of a logger
\* are three different paths of one directory, and the transcript file never
\* holds the JSON export.
C21_ArtifactPathsDistinct ==
    /\ Cardinality({filename, bilingual_path(base_filename), json_path(base_filename)}) = 3
    /\ dirname(bilingual_path(base_filename)) = dirname(filename)
    /\ dirname(json_path(base_filename)) = dirname(filename)
    /\ filename \in DOMAIN fs =>
          \A i \in 1..Len(fs[filename]) : fs[filename][i].kind # "json"

\* C22: is_recording is true exactly when one stream is started and not yet
\* closed, at most one stream is open, start_recording while recording returns
\* False and opens no stream, and stop_recording while not recording changes
\* neither is_recording nor the streams.
C22_RecordingMatchesStream ==
    /\ voice.is_recording <=>
          Cardinality({i \in 1..Len(voice.streams) :
                          voice.streams[i].started /\ ~voice.streams[i].closed}) = 1
    /\ Cardinality({i \in 1..Len(voice.streams) : ~voice.streams[i].closed}) <= 1
    /\ (voice.op = "start_recording" /\ voice.was) =>
          /\ voice.ret = <<FALSE>>
          /\ Len(voice.streams) = voice.had
          /\ voice.is_recording
    /\ (voice.op = "stop_recording" /\ ~voice.was) =>
          /\ ~voice.is_recording
          /\ Len(voice.streams) = voice.had
====
